---- MODULE Spec2Model ----
(***************************************************************************)
(* guldkorn (src/main.go): locate forks with commits ahead of the original *)
(* repository.  The model covers the fork crawl (getAllForks, getForks,    *)
(* repoQueue), the per-fork branch comparison (compare, getBranches), the  *)
(* rate-limit retry (getRepo, waitForRateLimitReset) and the whole run     *)
(* (findInterestingForks).                                                 *)
(*                                                                         *)
(* Strings are sequences of byte values, so that Go's string comparison    *)
(* (bytewise lexicographic) and concatenation are computed, not assumed.   *)
(* The GitHub API is the environment: its answers are drawn from the world *)
(* variables chosen in the initial state and from the outcome of each call *)
(* (success, rate limit error with a reset time, any other error).         *)
(***************************************************************************)
EXTENDS Integers, Sequences, FiniteSets, TLC

----------------------------------------------------------------------------
(* Bounds of the model. *)

\* Largest number of fork edges in the fork graph served by the API.
MaxEdges == 2
\* Largest number of items the API puts on one page of a listing.
MaxPageLen == 2
\* Largest number of rate limit errors the API answers in one run.
MaxQuota == 1
\* Largest number of other (non rate limit) errors the API answers in one run.
MaxFail == 1
\* Largest number of rate limit errors the API answers to a single getRepo.
MaxRetries == 2
\* Largest number of branches of a fork.
MaxBranches == 2
\* Largest number of commits in the answer of CompareCommits.
MaxCommits == 2
\* Largest ahead_by in the answer of CompareCommits.
MaxAhead == 2
\* Latest instant at which the API starts to answer rate limit errors anew.
MaxClock == 2

\* Largest number of fork relations of the graphs of the breadth-first crawl.
MaxDeepEdges == 4

\* Largest number of push calls on the queue taken alone.
MaxPushes == 3

----------------------------------------------------------------------------
(* Strings. *)

Slash == <<47>>
Colon == <<58>>

\* Go's s < t on strings: bytewise lexicographic order.  At the first
\* position k where the strings differ, s has ended or holds the smaller byte.
StrLess(s, t) ==
    \E k \in 1..Len(t) :
        /\ k <= Len(s) + 1
        /\ \A j \in 1..(k - 1) : s[j] = t[j]
        /\ (k = Len(s) + 1 \/ s[k] < t[k])

----------------------------------------------------------------------------
(* The repositories known to the API. *)

RepoIds == 1..3

\* Owner login of each repository: "b", "a", "a-b".
OwnerOf(i) == CASE i = 1 -> <<98>>
                [] i = 2 -> <<97>>
                [] i = 3 -> <<97, 45, 98>>

\* Name of each repository: "y", "z", "x".
NameOf(i) == CASE i = 1 -> <<121>>
               [] i = 2 -> <<122>>
               [] i = 3 -> <<120>>

\* repoElem{ownerName, repoName}: the key of the queue and of the done map.
repoElem(owner, name) == [ownerName |-> owner, repoName |-> name]

ElemOf(i) == repoElem(OwnerOf(i), NameOf(i))

RepoElems == {ElemOf(i) : i \in RepoIds}

IdOf(elem) == CHOOSE i \in RepoIds : ElemOf(i) = elem

\* The repository the crawl starts from: "a/z".
RootId == 2

\* Branch names: "master", "dev", "fix".
Master == <<109, 97, 115, 116, 101, 114>>
Dev == <<100, 101, 118>>
Fix == <<102, 105, 120>>

BranchNames == {Master, Dev, Fix}

----------------------------------------------------------------------------
VARIABLES
    \* The world served by the API.
    edges,      \* fork graph: <<p, c>> when repository c is listed as a fork of p
    forkList,   \* for each repository, the ids of its forks in the order
                \* ListForks lists them
    pageLen,    \* number of items the API puts on a page
    branchList, \* for each repository, its branch names in the order
                \* ListBranches lists them
    defaultBranch, \* default branch of the original repository
    watch,      \* the -watch flag
    \* The program.
    entry,      \* the function the run was started in
    pc,         \* position of the single thread of control
    q,          \* getAllForks: repoQueue [elems, pos]
    done,       \* getAllForks: set of repoElem with done[elem] = true
    allForks,   \* getAllForks: accumulated forks
    elem,       \* getAllForks: element popped last
    forks,      \* getAllForks: value returned by the last getForks call
    opt,        \* listing: opt.Page, 0 until a NextPage is stored
    page,       \* listing: page counter used in warnings
    acc,        \* listing: items accumulated over the pages (local allForks)
    err,        \* error returned by the last API call: [kind, reset]
    repoBranches, \* compare: branches of the original repository (parameter)
    fork,       \* compare: id of the fork (parameter)
    forkBranches, \* compare: value returned by getBranches for the fork
    bi,         \* compare: index in forkBranches of the next branch
    divergent,  \* compare: the boolean returned
    comp,       \* compare: answer of the last CompareCommits, NoComp if it failed
    base,       \* compare: base of the last comparison requested
    head,       \* compare: head of the last comparison requested
    out,        \* records printed: stdout (fmt.Printf) and debug (dbg.Printf)
    ret,        \* getRepo: the value returned
    fi,         \* findInterestingForks: index in forks of the next fork
    subs,       \* forks subscribed to with SetRepositorySubscription, in order
    now,        \* the clock
    \* History, read only by the properties.
    reqs,       \* API invocations of the operation in progress: the call,
                \* its argument (page, or base and head), the answer, the instant
    calls,      \* number of getForks calls per repoElem
    pushLog,    \* every element pushed onto the queue, in push order
    popped,     \* every element q.pop() returned, in pop order
    reported,   \* what the last q.empty() call reported, "none" before the first
    nquota,     \* rate limit errors answered so far
    nfail       \* other errors answered so far

vars == <<edges, forkList, pageLen, branchList, defaultBranch, watch, entry, pc, q,
          done, allForks, elem, forks, opt, page, acc, err, repoBranches, fork,
          forkBranches, bi, divergent, comp, base, head, out, ret, fi, subs, now, reqs,
          calls, pushLog, popped, reported, nquota, nfail>>

worldVars == <<edges, forkList, pageLen, branchList, defaultBranch, watch>>
runVars == <<fi, subs>>
cmpVars == <<repoBranches, fork, forkBranches, bi, divergent, comp, base, head, out>>
crawlVars == <<q, done, allForks, elem, forks, calls, pushLog>>
listVars == <<opt, page, acc>>
queueVars == <<popped, reported>>

----------------------------------------------------------------------------
(* The GitHub API. *)

Min(a, b) == IF a < b THEN a ELSE b

NoErr == [kind |-> "nil", reset |-> 0]

\* comp == nil: CompareCommits answered no comparison.
NoComp == [AheadBy |-> 0, Commits |-> <<>>, ok |-> FALSE]

\* getRepo has not returned.
NoRet == [repo |-> 0, err |-> "none"]

\* Largest number of rate limit errors the API answers in the run.
QuotaBudget == IF entry = "getRepo" THEN MaxRetries ELSE MaxQuota

\* What an API call made at the instant t can answer: success, a
\* *github.RateLimitError carrying Rate.Reset (a reset time one instant ago,
\* now or one instant ahead), or any other error.
Outcomes(t) ==
    {NoErr}
    \cup {[kind |-> "rate", reset |-> r] :
             r \in {r \in (t - 1)..(t + 1) : nquota < QuotaBudget /\ r >= 0}}
    \cup {[kind |-> "other", reset |-> 0] : x \in {x \in {0} : nfail < MaxFail}}

\* The history kept of one API invocation.
Req(op, a, o, t) == [op |-> op, arg |-> a, kind |-> o.kind, reset |-> o.reset, at |-> t]

ForkIdsOf(i) == {c \in RepoIds : <<i, c>> \in edges}

\* github.Repository of repository i, as the API reports it.
Repository(i) ==
    [Owner |-> OwnerOf(i), Name |-> NameOf(i), ForksCount |-> Len(forkList[i])]

GetFullName(r) == r.Owner \o Slash \o r.Name

\* The ids of S in ascending order, or in descending order when rev.
IdsInOrder(S, rev) ==
    LET before(x, y) == IF rev THEN x > y ELSE x < y
    IN [k \in 1..Cardinality(S) |->
            CHOOSE x \in S : Cardinality({y \in S : before(y, x)}) = k - 1]

\* The fork lists of the graph g, every list in ascending or in descending
\* order of the ids.
ForkLists(g, rev) ==
    [i \in RepoIds |-> IdsInOrder({c \in RepoIds : <<i, c>> \in g}, rev)]

\* The whole fork listing of repository i.
ForkListing(i) == [k \in 1..Len(forkList[i]) |-> Repository(forkList[i][k])]

NumPages(list) == IF Len(list) = 0 THEN 1 ELSE (Len(list) + pageLen - 1) \div pageLen

\* Page number asked for by opt.Page (0 asks for the first page).
ReqPage(o) == IF o = 0 THEN 1 ELSE o

PageItems(list, p) == SubSeq(list, (p - 1) * pageLen + 1, Min(p * pageLen, Len(list)))

\* resp.NextPage of page p: 0 on the last page.
NextPage(list, p) == IF p < NumPages(list) THEN p + 1 ELSE 0

----------------------------------------------------------------------------
(* Helper functions of main.go. *)

\* newRepoQueue
newRepoQueue == [elems |-> <<>>, pos |-> 0]

\* (q *repoQueue) push
push(qq, e) == [qq EXCEPT !.elems = Append(@, e)]

\* Mutant of popElem: the element pushed last is returned.
popElemLast(qq) == qq.elems[Len(qq.elems)]

\* (q *repoQueue) pop: the element returned and the queue left.
popElem(qq) == qq.elems[qq.pos + 1]

popQueue(qq) == [qq EXCEPT !.pos = @ + 1]
popPanics(qq) == qq.pos >= Len(qq.elems)

\* (q *repoQueue) empty: the result and the queue left (reset when empty).
emptyPanics(qq) == qq.pos > Len(qq.elems)
isempty(qq) == Len(qq.elems) - qq.pos = 0
emptyQueue(qq) == IF isempty(qq) THEN [qq EXCEPT !.elems = <<>>] ELSE qq

\* Mutant of SleepWake: time.Sleep returns at once.
SleepWakeAtOnce(delta) == {now}

\* The instants time.Sleep(delta) can return at: at once when delta <= 0,
\* otherwise after at least delta.
SleepWake(delta) ==
    IF delta <= 0 THEN {now}
    ELSE (now + delta)..(now + delta + 1)

\* waitForRateLimitReset(err) with a rate limit error: the instants it returns at.
waitForRateLimitReset(e) == SleepWake(e.reset - now)

\* sort.Slice(allForks, func(i, j) { GetFullName(i) < GetFullName(j) }): the
\* entry at position k of the result is the one with k - 1 entries before it
\* (entries with the same full name hold the same repository here, so their
\* order does not show).
SortRepos(s) ==
    LET less(i, j) == StrLess(GetFullName(s[i]), GetFullName(s[j]))
        before(i, j) == less(i, j) \/ (~less(j, i) /\ i < j)
    IN [k \in 1..Len(s) |->
            s[CHOOSE i \in 1..Len(s) :
                  Cardinality({j \in 1..Len(s) : before(j, i)}) = k - 1]]

\* err.(*github.RateLimitError): whether waitForRateLimitReset waits and
\* reports true.
IsRateLimitError(e) == e.kind = "rate"

----------------------------------------------------------------------------
(* getAllForks and getForks. *)

\* fork.GetForksCount() > 0
HasForks(f) == f.ForksCount > 0

\* Mutant of PushForks: every fork is pushed, whatever its fork count.
PushForksAll(qq, fs) ==
    [qq EXCEPT !.elems = @ \o [k \in 1..Len(fs) |-> repoElem(fs[k].Owner, fs[k].Name)]]

\* The loop of getAllForks over the forks returned by getForks: push, in
\* order, every fork that has forks of its own.
PushForks(qq, fs) ==
    LET sel == SelectSeq(fs, HasForks)
    IN [qq EXCEPT !.elems = @ \o [k \in 1..Len(sel) |-> repoElem(sel[k].Owner, sel[k].Name)]]

\* getForks returns fs (sorted, nil error) to getAllForks, which appends the
\* forks and pushes those that have forks.
ReturnForks(fs) ==
    /\ forks' = fs
    /\ allForks' = allForks \o fs
    /\ q' = PushForks(q, fs)
    /\ pushLog' = pushLog \o PushForks(newRepoQueue, fs).elems
    /\ pc' = "loop"
    /\ opt' = 0
    /\ page' = 0
    /\ acc' = <<>>
    /\ UNCHANGED <<done, elem, calls>>

\* Mutant of ListForksAnswer: the items of the page that failed are returned
\* with the partial result.
ListForksAnswerKeepsFailedPage(o, t) ==
    \E p \in {ReqPage(opt)} :
    \E items \in {PageItems(ForkListing(IdOf(elem)), p)} :
    \E next \in {NextPage(forkList[IdOf(elem)], p)} :
       /\ err' = o
       /\ reqs' = Append(reqs, Req("ListForks", [repo |-> elem, page |-> p], o, t))
       /\ nquota' = IF o.kind = "rate" THEN nquota + 1 ELSE nquota
       /\ nfail' = IF o.kind = "other" THEN nfail + 1 ELSE nfail
       /\ \/ /\ o.kind = "rate"
             \* the next waitForRateLimitReset(err) waits and retries
             /\ pc' = "retryForks"
             /\ UNCHANGED <<crawlVars, listVars>>
          \/ /\ o.kind = "other"
             \* warning, break: the partial result is sorted and returned
             /\ \E fs \in {SortRepos(acc \o items)} : ReturnForks(fs)
          \/ /\ o.kind = "nil"
             /\ next = 0
             /\ \E got \in {acc \o items} : \E fs \in {SortRepos(got)} : ReturnForks(fs)
          \/ /\ o.kind = "nil"
             /\ next # 0
             /\ acc' = acc \o items
             /\ opt' = next
             /\ page' = page + 1
             /\ pc' = "listForks"
             /\ UNCHANGED crawlVars

\* Mutant of ListForksAnswer: the items of the page are appended also when
\* the answer is a rate limit error.
ListForksAnswerAppendsOnQuota(o, t) ==
    \E p \in {ReqPage(opt)} :
    \E items \in {PageItems(ForkListing(IdOf(elem)), p)} :
    \E next \in {NextPage(forkList[IdOf(elem)], p)} :
       /\ err' = o
       /\ reqs' = Append(reqs, Req("ListForks", [repo |-> elem, page |-> p], o, t))
       /\ nquota' = IF o.kind = "rate" THEN nquota + 1 ELSE nquota
       /\ nfail' = IF o.kind = "other" THEN nfail + 1 ELSE nfail
       /\ \/ /\ o.kind = "rate"
             \* the next waitForRateLimitReset(err) waits and retries
             /\ pc' = "retryForks"
             /\ acc' = acc \o items
             /\ UNCHANGED <<crawlVars, opt, page>>
          \/ /\ o.kind = "other"
             \* warning, break: the partial result is sorted and returned
             /\ \E fs \in {SortRepos(acc)} : ReturnForks(fs)
          \/ /\ o.kind = "nil"
             /\ next = 0
             /\ \E got \in {acc \o items} : \E fs \in {SortRepos(got)} : ReturnForks(fs)
          \/ /\ o.kind = "nil"
             /\ next # 0
             /\ acc' = acc \o items
             /\ opt' = next
             /\ page' = page + 1
             /\ pc' = "listForks"
             /\ UNCHANGED crawlVars

\* Mutant of ListForksAnswer: resp.NextPage is not followed, the listing
\* returns after the first page obtained.
ListForksAnswerOnePage(o, t) ==
    \E p \in {ReqPage(opt)} :
    \E items \in {PageItems(ForkListing(IdOf(elem)), p)} :
    \E next \in {NextPage(forkList[IdOf(elem)], p)} :
       /\ err' = o
       /\ reqs' = Append(reqs, Req("ListForks", [repo |-> elem, page |-> p], o, t))
       /\ nquota' = IF o.kind = "rate" THEN nquota + 1 ELSE nquota
       /\ nfail' = IF o.kind = "other" THEN nfail + 1 ELSE nfail
       /\ \/ /\ o.kind = "rate"
             \* the next waitForRateLimitReset(err) waits and retries
             /\ pc' = "retryForks"
             /\ UNCHANGED <<crawlVars, listVars>>
          \/ /\ o.kind = "other"
             \* warning, break: the partial result is sorted and returned
             /\ \E fs \in {SortRepos(acc)} : ReturnForks(fs)
          \/ /\ o.kind = "nil"
             /\ \E got \in {acc \o items} : \E fs \in {SortRepos(got)} : ReturnForks(fs)

\* What getForks does with the answer o of ListForks to the request of the
\* page opt.Page made at the instant t.
ListForksAnswer(o, t) ==
    \E p \in {ReqPage(opt)} :
    \E items \in {PageItems(ForkListing(IdOf(elem)), p)} :
    \E next \in {NextPage(forkList[IdOf(elem)], p)} :
       /\ err' = o
       /\ reqs' = Append(reqs, Req("ListForks", [repo |-> elem, page |-> p], o, t))
       /\ nquota' = IF o.kind = "rate" THEN nquota + 1 ELSE nquota
       /\ nfail' = IF o.kind = "other" THEN nfail + 1 ELSE nfail
       /\ \/ /\ o.kind = "rate"
             \* the next waitForRateLimitReset(err) waits and retries
             /\ pc' = "retryForks"
             /\ UNCHANGED <<crawlVars, listVars>>
          \/ /\ o.kind = "other"
             \* warning, break: the partial result is sorted and returned
             /\ \E fs \in {SortRepos(acc)} : ReturnForks(fs)
          \/ /\ o.kind = "nil"
             /\ next = 0
             /\ \E got \in {acc \o items} : \E fs \in {SortRepos(got)} : ReturnForks(fs)
          \/ /\ o.kind = "nil"
             /\ next # 0
             /\ acc' = acc \o items
             /\ opt' = next
             /\ page' = page + 1
             /\ pc' = "listForks"
             /\ UNCHANGED crawlVars

\* Mutant of GetAllForksReturn: the final sort.Slice is missing.
GetAllForksReturnUnsorted ==
    /\ pc = "loop"
    /\ ~emptyPanics(q)
    /\ isempty(q)
    /\ q' = emptyQueue(q)
    /\ pc' = IF entry = "getAllForks" THEN "done" ELSE "forkLoop"
    /\ reported' = TRUE
    /\ UNCHANGED popped
    /\ UNCHANGED <<worldVars, runVars, entry, done, allForks, elem, forks, listVars, err, now,
                   reqs, calls, pushLog, nquota, nfail, cmpVars, ret>>

\* for !q.empty(): the queue is empty; sort allForks and return.
GetAllForksReturn ==
    /\ pc = "loop"
    /\ ~emptyPanics(q)
    /\ isempty(q)
    /\ q' = emptyQueue(q)
    /\ allForks' = SortRepos(allForks)
    /\ pc' = IF entry = "getAllForks" THEN "done" ELSE "forkLoop"
    /\ reported' = TRUE
    /\ UNCHANGED popped
    /\ UNCHANGED <<worldVars, runVars, entry, done, elem, forks, listVars, err, now, reqs,
                   calls, pushLog, nquota, nfail, cmpVars, ret>>

\* The element popped is in done: continue.
GetAllForksSkip ==
    /\ pc = "loop"
    /\ ~emptyPanics(q)
    /\ ~isempty(q)
    /\ ~popPanics(q)
    /\ popElem(emptyQueue(q)) \in done
    /\ elem' = popElem(emptyQueue(q))
    /\ q' = popQueue(emptyQueue(q))
    /\ reported' = FALSE
    /\ popped' = Append(popped, elem')
    /\ UNCHANGED <<worldVars, runVars, entry, pc, done, allForks, forks, listVars, err, now,
                   reqs, calls, pushLog, nquota, nfail, cmpVars, ret>>

\* Mutant of GetAllForksExpand: done[elem] = true is missing.
GetAllForksExpandUnmarked ==
    /\ pc = "loop"
    /\ ~emptyPanics(q)
    /\ ~isempty(q)
    /\ ~popPanics(q)
    /\ popElem(emptyQueue(q)) \notin done
    /\ elem' = popElem(emptyQueue(q))
    /\ q' = popQueue(emptyQueue(q))
    /\ calls' = [calls EXCEPT ![elem'] = @ + 1]
    /\ opt' = 0
    /\ page' = 1
    /\ acc' = <<>>
    /\ reqs' = <<>>
    /\ pc' = "listForks"
    /\ reported' = FALSE
    /\ popped' = Append(popped, elem')
    /\ UNCHANGED <<worldVars, runVars, entry, done, allForks, forks, err, now, pushLog,
                   nquota, nfail, cmpVars, ret>>

\* The element popped is new: mark it done and call getForks on it.
GetAllForksExpand ==
    /\ pc = "loop"
    /\ ~emptyPanics(q)
    /\ ~isempty(q)
    /\ ~popPanics(q)
    /\ popElem(emptyQueue(q)) \notin done
    /\ elem' = popElem(emptyQueue(q))
    /\ q' = popQueue(emptyQueue(q))
    /\ done' = done \cup {elem'}
    /\ calls' = [calls EXCEPT ![elem'] = @ + 1]
    /\ opt' = 0
    /\ page' = 1
    /\ acc' = <<>>
    /\ reqs' = <<>>
    /\ pc' = "listForks"
    /\ reported' = FALSE
    /\ popped' = Append(popped, elem')
    /\ UNCHANGED <<worldVars, runVars, entry, allForks, forks, err, now, pushLog, nquota, nfail,
                   cmpVars, ret>>

\* getForks: the first ListForks call for the page.
ListForks ==
    /\ pc = "listForks"
    /\ \E o \in Outcomes(now) : ListForksAnswer(o, now)
    /\ UNCHANGED <<worldVars, queueVars, runVars, entry, now, cmpVars, ret>>

\* Mutant of RetryListForks: the loop waits but does not call again.
RetryListForksNoCall ==
    /\ pc = "retryForks"
    /\ IsRateLimitError(err)
    /\ \E t \in waitForRateLimitReset(err) : now' = t
    /\ UNCHANGED <<worldVars, runVars, queueVars, entry, pc, crawlVars, listVars, cmpVars,
                   ret, err, reqs, nquota, nfail>>

\* getForks: waitForRateLimitReset(err) reported a rate limit error and has
\* slept; ListForks is called again with the same opt.
RetryListForks ==
    /\ pc = "retryForks"
    /\ IsRateLimitError(err)
    /\ \E t \in waitForRateLimitReset(err) :
          /\ now' = t
          /\ \E o \in Outcomes(t) : ListForksAnswer(o, t)
    /\ UNCHANGED <<worldVars, queueVars, runVars, entry, cmpVars, ret>>

\* The fork graphs the API can serve.
Graphs == {g \in SUBSET (RepoIds \X RepoIds) : Cardinality(g) <= MaxEdges}

\* getAllForks up to the loop: the queue holds the root.
InitCrawl ==
    /\ edges \in Graphs
    /\ \E rev \in BOOLEAN : forkList = ForkLists(edges, rev)
    /\ pageLen \in 1..MaxPageLen
    /\ branchList = [i \in RepoIds |-> <<>>]
    /\ defaultBranch = Master
    /\ repoBranches = <<>>
    /\ fork = RootId
    /\ forkBranches = <<>>
    /\ bi = 1
    /\ divergent = FALSE
    /\ comp = NoComp
    /\ base = <<>>
    /\ head = <<>>
    /\ out = <<>>
    /\ ret = NoRet
    /\ watch = FALSE
    /\ fi = 1
    /\ subs = <<>>
    /\ popped = <<>>
    /\ reported = "none"
    /\ entry = "getAllForks"
    /\ pc = "loop"
    /\ q = push(newRepoQueue, ElemOf(RootId))
    /\ done = {}
    /\ allForks = <<>>
    /\ elem = ElemOf(RootId)
    /\ forks = <<>>
    /\ opt = 0
    /\ page = 0
    /\ acc = <<>>
    /\ err = NoErr
    /\ now = 1
    /\ reqs = <<>>
    /\ calls = [e \in RepoElems |-> 0]
    /\ pushLog = <<ElemOf(RootId)>>
    /\ nquota = 0
    /\ nfail = 0

NextCrawl ==
    \/ GetAllForksReturn
    \/ GetAllForksSkip
    \/ GetAllForksExpand
    \/ ListForks
    \/ RetryListForks

SpecCrawl == InitCrawl /\ [][NextCrawl]_vars

\* The crawl under the scheduling of the single thread of control: a step
\* that can be taken is taken.
SpecCrawlFair == SpecCrawl /\ WF_vars(NextCrawl)

----------------------------------------------------------------------------
(* Properties of the crawl. *)

Range(s) == {s[i] : i \in DOMAIN s}

\* Number of entries of the list s that are the repository of elem e.
Occurrences(s, e) ==
    Cardinality({i \in DOMAIN s : repoElem(s[i].Owner, s[i].Name) = e})

RECURSIVE SumCalls(_)
SumCalls(S) ==
    IF S = {} THEN 0
    ELSE LET e == CHOOSE x \in S : TRUE IN calls[e] + SumCalls(S \ {e})

RECURSIVE ReachFrom(_)
\* The repositories reachable from the set S along fork edges, S included.
ReachFrom(S) ==
    LET n == S \cup {c \in RepoIds : \E p \in S : <<p, c>> \in edges}
    IN IF n = S THEN S ELSE ReachFrom(n)

\* The forks reachable from the root: its forks, their forks, and so on.
ReachableForks == ReachFrom(ForkIdsOf(RootId))

CrawlDone == entry = "getAllForks" /\ pc = "done"

\* C1: no repository has its fork list fetched twice, and when getAllForks
\* has returned every distinct repository ever pushed onto the queue has had
\* getForks called on it exactly once, so that the number of getForks calls
\* is the number of distinct repositories pushed (not the number of pushes).
C1_ExpandedExactlyOnce ==
    /\ \A e \in RepoElems : calls[e] <= 1
    /\ CrawlDone =>
         /\ \A e \in RepoElems : calls[e] = IF e \in Range(pushLog) THEN 1 ELSE 0
         /\ SumCalls(RepoElems) = Cardinality(Range(pushLog))

\* C1 witness: a finished crawl in which some repository was pushed more
\* than once (a diamond, a self-fork or a back-edge).
C1_Witness ==
    /\ CrawlDone
    /\ Len(pushLog) > Cardinality(Range(pushLog))
    /\ SumCalls(RepoElems) >= 2

\* C2 as claimed: without API failures the returned list holds every fork
\* reachable from the root exactly once.
C2_EveryForkExactlyOnce ==
    (CrawlDone /\ nfail = 0) =>
        \A i \in RepoIds :
            Occurrences(allForks, ElemOf(i)) = IF i \in ReachableForks THEN 1 ELSE 0

\* C3 as claimed: the root is never an element of the returned list.
C3_RootNotReturned ==
    CrawlDone => Occurrences(allForks, ElemOf(RootId)) = 0

\* C4: the list returned by getAllForks is sorted ascending by full name:
\* no entry has a full name smaller than the entry before it.
C4_ResultSorted ==
    CrawlDone =>
        \A i \in 1..(Len(allForks) - 1) :
            ~StrLess(GetFullName(allForks[i + 1]), GetFullName(allForks[i]))

\* C4 witness: the root's only fork is b/y, whose only fork is a-b/x, so the
\* forks are discovered as b/y, a-b/x and returned as a-b/x, b/y.
C4_Witness ==
    /\ CrawlDone
    /\ edges = {<<RootId, 1>>, <<1, 3>>}
    /\ nfail = 0
    /\ allForks = <<Repository(3), Repository(1)>>

\* C5: the crawl terminates: getAllForks eventually returns.
C5_CrawlTerminates == <>(pc = "done")

\* C5 witness: a finished crawl of a graph in which the root is listed as a
\* fork of itself or of one of its descendants.
C5_Witness ==
    /\ CrawlDone
    /\ RootId \in ReachableForks
    /\ Len(pushLog) >= 2

----------------------------------------------------------------------------
(* getBranches and compare. *)

\* The branches left in the order of their arrival.
SortBranchesAsReceived(s) == s

\* sort.Slice(allBrances, func(i, j) { GetName(i) < GetName(j) })
SortBranches(s) ==
    LET before(i, j) == StrLess(s[i], s[j]) \/ (~StrLess(s[j], s[i]) /\ i < j)
    IN [k \in 1..Len(s) |->
            s[CHOOSE i \in 1..Len(s) :
                  Cardinality({j \in 1..Len(s) : before(j, i)}) = k - 1]]

\* The names of S in ascending order, or in descending order when rev.
NamesInOrder(S, rev) ==
    LET before(x, y) == IF rev THEN StrLess(y, x) ELSE StrLess(x, y)
    IN [k \in 1..Cardinality(S) |->
            CHOOSE x \in S : Cardinality({y \in S : before(y, x)}) = k - 1]

\* repoBranchNames: the names of the branches of the original repository.
repoBranchNames == {repoBranches[i] : i \in DOMAIN repoBranches}

\* Mutant of compareRepoBranchName: the same-named branch is never used.
compareRepoBranchNameDefault(forkBranchName) == defaultBranch

\* compareRepoBranchName for the fork branch forkBranchName.
compareRepoBranchName(forkBranchName) ==
    IF forkBranchName \in repoBranchNames THEN forkBranchName ELSE defaultBranch

\* base := repoOwnerName + ":" + compareRepoBranchName
CompareBase(forkBranchName) ==
    OwnerOf(RootId) \o Colon \o compareRepoBranchName(forkBranchName)

\* Mutant of CompareHead: the head is named after the owner of the original
\* repository.
CompareHeadOfOriginal(forkBranchName) == OwnerOf(RootId) \o Colon \o forkBranchName

\* head := forkOwnerName + ":" + forkBranchName
CompareHead(forkBranchName) == OwnerOf(fork) \o Colon \o forkBranchName

\* The loop over comp.Commits.
forkOwnerMadeCommit(c) == \E i \in DOMAIN c.Commits : c.Commits[i] = OwnerOf(fork)
anonymousCommit(c) == \E i \in DOMAIN c.Commits : Len(c.Commits[i]) = 0

\* Mutant of Classify: the anonymous case is tested before the fork owner's.
ClassifyAnonymousFirst(c) ==
    IF c.AheadBy > 0
    THEN IF anonymousCommit(c) THEN "anonymous"
         ELSE IF forkOwnerMadeCommit(c) THEN "interesting"
         ELSE "unattributed"
    ELSE "notahead"

\* Mutant of Classify: comp.GetAheadBy() > 0 is not tested.
ClassifyAlwaysAhead(c) ==
    IF forkOwnerMadeCommit(c) THEN "interesting"
    ELSE IF anonymousCommit(c) THEN "anonymous"
    ELSE "unattributed"

\* The case of the switch taken for the comparison c.
Classify(c) ==
    IF c.AheadBy > 0
    THEN IF forkOwnerMadeCommit(c) THEN "interesting"
         ELSE IF anonymousCommit(c) THEN "anonymous"
         ELSE "unattributed"
    ELSE "notahead"

\* One record printed for a branch.
Record(stream, kind, b, c) ==
    [stream |-> stream, kind |-> kind, fork |-> fork, branch |-> b,
     base |-> CompareBase(b), head |-> CompareHead(b), aheadBy |-> c.AheadBy]

\* What compare prints for the branch b with the comparison c: the report on
\* stdout, a flagged debug report, or nothing when the fork is not ahead.
Printed(b, c) ==
    CASE Classify(c) = "interesting" -> <<Record("stdout", "interesting", b, c)>>
      [] Classify(c) = "anonymous" -> <<Record("dbg", "anonymous", b, c)>>
      [] Classify(c) = "unattributed" -> <<Record("dbg", "unattributed", b, c)>>
      [] OTHER -> <<>>

\* Mutant of NewDivergent: divergent is assigned for every branch.
NewDivergentAssigned(d, kind) == kind = "interesting"

\* divergent after a branch of the given case.
NewDivergent(d, kind) == IF kind = "interesting" THEN TRUE ELSE d

\* The author logins of the commits of a comparison: the fork owner, the owner
\* of the original repository, or none (GetLogin of a nil author is "").
Logins == {OwnerOf(fork), OwnerOf(RootId), <<>>}

\* The answers of CompareCommits.
CommitLists == UNION {[1..n -> Logins] : n \in 0..MaxCommits}

Comps == {[AheadBy |-> a, Commits |-> cs, ok |-> TRUE] : a \in 0..MaxAhead, cs \in CommitLists}

\* The comparisons CompareCommits answers with: any in a call of compare
\* alone; in a whole run those whose ahead_by is the number of commits listed.
CompareAnswers == IF entry = "run" THEN {c \in Comps : c.AheadBy = Len(c.Commits)} ELSE Comps

\* getBranches returns bs (sorted, nil error) to compare, which starts the
\* loop over the branches.
ReturnBranches(bs) ==
    /\ forkBranches' = bs
    /\ divergent' = FALSE
    /\ bi' = 1
    /\ pc' = "branchLoop"
    /\ opt' = 0
    /\ page' = 0
    /\ acc' = <<>>
    /\ UNCHANGED <<repoBranches, fork, comp, base, head, out>>

\* What getBranches does with the answer o of ListBranches to the request of
\* the page opt.Page made at the instant t.
ListBranchesAnswer(o, t) ==
    \E p \in {ReqPage(opt)} :
    \E items \in {PageItems(branchList[fork], p)} :
    \E next \in {NextPage(branchList[fork], p)} :
       /\ err' = o
       /\ reqs' = Append(reqs, Req("ListBranches", [repo |-> ElemOf(fork), page |-> p], o, t))
       /\ nquota' = IF o.kind = "rate" THEN nquota + 1 ELSE nquota
       /\ nfail' = IF o.kind = "other" THEN nfail + 1 ELSE nfail
       /\ \/ /\ o.kind = "rate"
             /\ pc' = "retryBranches"
             /\ UNCHANGED <<cmpVars, listVars>>
          \/ /\ o.kind = "other"
             \* warning, break: the partial result is sorted and returned
             /\ \E bs \in {SortBranches(acc)} : ReturnBranches(bs)
          \/ /\ o.kind = "nil"
             /\ next = 0
             /\ \E got \in {acc \o items} : \E bs \in {SortBranches(got)} : ReturnBranches(bs)
          \/ /\ o.kind = "nil"
             /\ next # 0
             /\ acc' = acc \o items
             /\ opt' = next
             /\ page' = page + 1
             /\ pc' = "listBranches"
             /\ UNCHANGED cmpVars

\* getBranches: the first ListBranches call for the page.
ListBranches ==
    /\ pc = "listBranches"
    /\ \E o \in Outcomes(now) : ListBranchesAnswer(o, now)
    /\ UNCHANGED <<worldVars, queueVars, runVars, entry, crawlVars, ret, now>>

\* getBranches: waitForRateLimitReset(err) has slept; ListBranches is called
\* again with the same opt.
RetryListBranches ==
    /\ pc = "retryBranches"
    /\ IsRateLimitError(err)
    /\ \E t \in waitForRateLimitReset(err) :
          /\ now' = t
          /\ \E o \in Outcomes(t) : ListBranchesAnswer(o, t)
    /\ UNCHANGED <<worldVars, queueVars, runVars, entry, crawlVars, ret>>

\* Mutant of CompareCommitsAnswer: a failed comparison ends the loop over the
\* branches of the fork (break for continue).
CompareCommitsAnswerBreaks(o, c, t, prev) ==
    \E b \in {forkBranches[bi]} :
       /\ base' = CompareBase(b)
       /\ head' = CompareHead(b)
       /\ err' = o
       /\ reqs' = Append(prev, Req("CompareCommits", <<CompareBase(b), CompareHead(b)>>, o, t))
       /\ nquota' = IF o.kind = "rate" THEN nquota + 1 ELSE nquota
       /\ nfail' = IF o.kind = "other" THEN nfail + 1 ELSE nfail
       /\ \/ /\ o.kind = "rate"
             /\ pc' = "retryCompare"
             /\ UNCHANGED <<bi, divergent, comp, out>>
          \/ /\ o.kind = "other"
             \* warning, continue: try the next branch
             /\ comp' = NoComp
             /\ bi' = Len(forkBranches) + 1
             /\ pc' = "branchLoop"
             /\ UNCHANGED <<divergent, out>>
          \/ /\ o.kind = "nil"
             /\ comp' = c
             /\ out' = out \o Printed(b, c)
             /\ divergent' = NewDivergent(divergent, Classify(c))
             /\ bi' = bi + 1
             /\ pc' = "branchLoop"
       /\ UNCHANGED <<repoBranches, fork, forkBranches, listVars>>

\* What compare does with the answer o (and, on success, the comparison c) of
\* CompareCommits for the branch forkBranches[bi], asked at the instant t
\* after the invocations prev.
CompareCommitsAnswer(o, c, t, prev) ==
    \E b \in {forkBranches[bi]} :
       /\ base' = CompareBase(b)
       /\ head' = CompareHead(b)
       /\ err' = o
       /\ reqs' = Append(prev, Req("CompareCommits", <<CompareBase(b), CompareHead(b)>>, o, t))
       /\ nquota' = IF o.kind = "rate" THEN nquota + 1 ELSE nquota
       /\ nfail' = IF o.kind = "other" THEN nfail + 1 ELSE nfail
       /\ \/ /\ o.kind = "rate"
             /\ pc' = "retryCompare"
             /\ UNCHANGED <<bi, divergent, comp, out>>
          \/ /\ o.kind = "other"
             \* warning, continue: try the next branch
             /\ comp' = NoComp
             /\ bi' = bi + 1
             /\ pc' = "branchLoop"
             /\ UNCHANGED <<divergent, out>>
          \/ /\ o.kind = "nil"
             /\ comp' = c
             /\ out' = out \o Printed(b, c)
             /\ divergent' = NewDivergent(divergent, Classify(c))
             /\ bi' = bi + 1
             /\ pc' = "branchLoop"
       /\ UNCHANGED <<repoBranches, fork, forkBranches, listVars>>

\* compare: the first CompareCommits call for the next branch of the fork.
CompareCommits ==
    /\ pc = "branchLoop"
    /\ bi <= Len(forkBranches)
    /\ \E o \in Outcomes(now) : \E c \in (IF o.kind = "nil" THEN CompareAnswers ELSE {NoComp}) :
          CompareCommitsAnswer(o, c, now, <<>>)
    /\ UNCHANGED <<worldVars, queueVars, runVars, entry, crawlVars, ret, now>>

\* compare: waitForRateLimitReset(err) has slept; CompareCommits is called
\* again with the same base and head.
RetryCompareCommits ==
    /\ pc = "retryCompare"
    /\ IsRateLimitError(err)
    /\ \E t \in waitForRateLimitReset(err) :
          /\ now' = t
          /\ \E o \in Outcomes(t) : \E c \in (IF o.kind = "nil" THEN CompareAnswers ELSE {NoComp}) :
                CompareCommitsAnswer(o, c, t, reqs)
    /\ UNCHANGED <<worldVars, queueVars, runVars, entry, crawlVars, ret>>

\* compare: every branch of the fork is done; return divergent.
CompareReturn ==
    /\ pc = "branchLoop"
    /\ bi > Len(forkBranches)
    /\ pc' = IF entry = "compare" THEN "done" ELSE "watch"
    /\ UNCHANGED <<worldVars, queueVars, runVars, entry, crawlVars, listVars, cmpVars, ret, err, now, reqs,
                   nquota, nfail>>

\* compare(repo, repoBranches, fork) up to the first ListBranches call of
\* getBranches: the original repository is the root, repoBranches is a sorted
\* list of its branches, the fork is another repository.
InitCompare ==
    /\ edges = {}
    /\ forkList = ForkLists({}, FALSE)
    /\ pageLen = 1
    /\ fork \in RepoIds \ {RootId}
    /\ \E S \in SUBSET BranchNames :
          /\ Cardinality(S) <= MaxBranches
          /\ branchList = [i \in RepoIds |-> IF i = fork THEN NamesInOrder(S, TRUE) ELSE <<>>]
    /\ defaultBranch \in {Master, Dev}
    /\ \E S \in SUBSET {Master, Dev} : repoBranches = NamesInOrder(S, FALSE)
    /\ forkBranches = <<>>
    /\ bi = 1
    /\ divergent = FALSE
    /\ comp = NoComp
    /\ base = <<>>
    /\ head = <<>>
    /\ out = <<>>
    /\ ret = NoRet
    /\ watch = FALSE
    /\ fi = 1
    /\ subs = <<>>
    /\ popped = <<>>
    /\ reported = "none"
    /\ entry = "compare"
    /\ pc = "listBranches"
    /\ q = newRepoQueue
    /\ done = {}
    /\ allForks = <<>>
    /\ elem = ElemOf(RootId)
    /\ forks = <<>>
    /\ opt = 0
    /\ page = 1
    /\ acc = <<>>
    /\ err = NoErr
    /\ now = 1
    /\ reqs = <<>>
    /\ calls = [e \in RepoElems |-> 0]
    /\ pushLog = <<>>
    /\ nquota = 0
    /\ nfail = 0

NextCompare ==
    \/ ListBranches
    \/ RetryListBranches
    \/ CompareCommits
    \/ RetryCompareCommits
    \/ CompareReturn

SpecCompare == InitCompare /\ [][NextCompare]_vars

----------------------------------------------------------------------------
(* Properties of compare. *)

\* A state in which the loop of compare has settled at least one branch.
BranchSettled == pc \in {"branchLoop", "done"} /\ bi > 1

\* The branch the last CompareCommits request was made for.
RequestedBranch == IF pc = "retryCompare" THEN forkBranches[bi] ELSE forkBranches[bi - 1]

\* A CompareCommits request has been made in this state.
Requested == pc = "retryCompare" \/ BranchSettled

\* The records printed for the branch b of the fork.
RecordsOf(b) == {i \in DOMAIN out : out[i].branch = b}

OwnerCommit == \E i \in DOMAIN comp.Commits : comp.Commits[i] = OwnerOf(fork)
AnonCommit == \E i \in DOMAIN comp.Commits : comp.Commits[i] = <<>>

\* C6: the comparison of a fork branch b has the base upstreamOwner:b when a
\* branch named b is in the upstream branch set passed to compare, the base
\* upstreamOwner:defaultBranch otherwise, and the head forkOwner:b; base and
\* head are what the request carries.
C6_BaseSelection ==
    Requested =>
        LET b == RequestedBranch
            same == \E i \in DOMAIN repoBranches : repoBranches[i] = b
            last == reqs[Len(reqs)]
        IN /\ same => base = OwnerOf(RootId) \o Colon \o b
           /\ ~same => base = OwnerOf(RootId) \o Colon \o defaultBranch
           /\ head = OwnerOf(fork) \o Colon \o b
           /\ last.op = "CompareCommits"
           /\ last.arg = <<base, head>>

\* Two branches compared: dev against the upstream dev, fix (not a branch of
\* upstream) against the upstream default branch master.
C6_Witness ==
    /\ pc = "done"
    /\ forkBranches = <<Dev, Fix>>
    /\ repoBranches = <<Dev, Master>>
    /\ defaultBranch = Master
    /\ Len(out) = 2
    /\ out[1].base = OwnerOf(RootId) \o Colon \o Dev
    /\ out[2].base = OwnerOf(RootId) \o Colon \o Master
    /\ out[2].head = OwnerOf(fork) \o Colon \o Fix

\* C7: a branch whose comparison has aheadBy > 0 is classified interesting
\* when a commit is by the fork owner (even if others are anonymous),
\* anonymous when none is by the fork owner and one has an empty login, and
\* unattributed otherwise; the branch has exactly one classification.
C7_ClassificationPriority ==
    (BranchSettled /\ comp.ok /\ comp.AheadBy > 0) =>
        LET b == forkBranches[bi - 1]
        IN /\ Cardinality(RecordsOf(b)) = 1
           /\ Len(out) > 0
           /\ out[Len(out)].branch = b
           /\ OwnerCommit => out[Len(out)].kind = "interesting"
           /\ (~OwnerCommit /\ AnonCommit) => out[Len(out)].kind = "anonymous"
           /\ (~OwnerCommit /\ ~AnonCommit) => out[Len(out)].kind = "unattributed"

\* Ahead, with a commit of the fork owner and an anonymous commit: interesting.
C7_Witness ==
    /\ BranchSettled
    /\ comp.ok
    /\ comp.AheadBy > 0
    /\ OwnerCommit
    /\ AnonCommit
    /\ out[Len(out)].kind = "interesting"

\* C8: a branch whose comparison has aheadBy = 0 gets none of the three
\* classifications and does not set divergent, whoever wrote the commits of
\* the comparison.
C8_NotAheadShortCircuit ==
    (BranchSettled /\ comp.ok /\ comp.AheadBy = 0) =>
        LET b == forkBranches[bi - 1]
        IN /\ RecordsOf(b) = {}
           /\ divergent => \E i \in DOMAIN out : out[i].branch # b /\ out[i].kind = "interesting"

\* Not ahead although a commit is by the fork owner: nothing printed, not divergent.
C8_Witness ==
    /\ pc = "done"
    /\ bi > 1
    /\ comp.ok
    /\ comp.AheadBy = 0
    /\ OwnerCommit
    /\ out = <<>>
    /\ ~divergent

\* C9: divergent is true exactly when a branch of the fork was classified
\* interesting (ahead, reported on stdout); failed comparisons and other
\* classifications do not set it and a later branch does not reset it.
C9_DivergentIffInteresting ==
    (pc \in {"branchLoop", "retryCompare", "done"}) =>
        /\ divergent <=> \E i \in DOMAIN out : out[i].kind = "interesting"
        /\ \A i \in DOMAIN out :
              out[i].kind = "interesting" => out[i].aheadBy > 0 /\ out[i].stream = "stdout"

\* compare returns true: the first branch was interesting, the second was not.
C9_Witness ==
    /\ pc = "done"
    /\ divergent
    /\ Len(forkBranches) = 2
    /\ Len(out) = 2
    /\ out[1].kind = "interesting"
    /\ out[2].kind = "unattributed"

\* C19 as stated: every fork branch whose comparison succeeded has exactly
\* one record: the report on stdout when it is interesting, otherwise one
\* debug record tagged not-ahead, anonymous or unattributed.
C19_OneRecordPerComparison ==
    (BranchSettled /\ comp.ok) =>
        \E b \in {forkBranches[bi - 1]} :
           /\ Cardinality(RecordsOf(b)) = 1
           /\ \A i \in RecordsOf(b) :
                 IF Classify(comp) = "interesting"
                 THEN out[i].stream = "stdout" /\ out[i].kind = "interesting"
                 ELSE /\ out[i].stream = "dbg"
                      /\ out[i].kind \in {"notahead", "anonymous", "unattributed"}
                      /\ out[i].kind = Classify(comp)

----------------------------------------------------------------------------
(* getRepo. *)

\* Mutant of GetAnswer: every error is taken for a rate limit error.
GetAnswerRetriesAll(o, t, prev) ==
    /\ err' = o
    /\ reqs' = Append(prev, Req("Get", elem, o, t))
    /\ nquota' = IF o.kind = "rate" THEN nquota + 1 ELSE nquota
    /\ nfail' = IF o.kind = "other" THEN nfail + 1 ELSE nfail
    /\ \/ /\ o.kind # "nil"
          /\ pc' = "retryRepo"
          /\ UNCHANGED ret
       \/ /\ o.kind = "nil"
          /\ ret' = [repo |-> IdOf(elem), err |-> "nil"]
          /\ pc' = IF entry = "getRepo" THEN "done" ELSE "rootBranches"

\* Mutant of GetAnswer: findInterestingForks goes on after getRepo returned an
\* error.
GetAnswerErrorIgnored(o, t, prev) ==
    /\ err' = o
    /\ reqs' = Append(prev, Req("Get", elem, o, t))
    /\ nquota' = IF o.kind = "rate" THEN nquota + 1 ELSE nquota
    /\ nfail' = IF o.kind = "other" THEN nfail + 1 ELSE nfail
    /\ \/ /\ o.kind = "rate"
          /\ pc' = "retryRepo"
          /\ UNCHANGED ret
       \/ /\ o.kind = "other"
          /\ ret' = [repo |-> 0, err |-> "other"]
          /\ pc' = IF entry = "getRepo" THEN "done" ELSE "rootBranches"
       \/ /\ o.kind = "nil"
          /\ ret' = [repo |-> IdOf(elem), err |-> "nil"]
          /\ pc' = IF entry = "getRepo" THEN "done" ELSE "rootBranches"

\* What getRepo does with the answer o of Repositories.Get(ownerName,
\* repoName) asked at the instant t after the invocations prev.
GetAnswer(o, t, prev) ==
    /\ err' = o
    /\ reqs' = Append(prev, Req("Get", elem, o, t))
    /\ nquota' = IF o.kind = "rate" THEN nquota + 1 ELSE nquota
    /\ nfail' = IF o.kind = "other" THEN nfail + 1 ELSE nfail
    /\ \/ /\ o.kind = "rate"
          /\ pc' = "retryRepo"
          /\ UNCHANGED ret
       \/ /\ o.kind = "other"
          \* return nil, errors.WithStack(err)
          /\ ret' = [repo |-> 0, err |-> "other"]
          /\ pc' = IF entry = "getRepo" THEN "done" ELSE "abort"
       \/ /\ o.kind = "nil"
          \* return repo, nil
          /\ ret' = [repo |-> IdOf(elem), err |-> "nil"]
          /\ pc' = IF entry = "getRepo" THEN "done" ELSE "rootBranches"

\* getRepo: the first Repositories.Get call.
GetRepoCall ==
    /\ pc = "getRepo"
    /\ \E o \in Outcomes(now) : GetAnswer(o, now, <<>>)
    /\ UNCHANGED <<worldVars, queueVars, runVars, entry, crawlVars, listVars, cmpVars, now>>

\* Mutant of RetryGetRepo: the loop waits but does not call again.
RetryGetRepoNoCall ==
    /\ pc = "retryRepo"
    /\ IsRateLimitError(err)
    /\ \E t \in waitForRateLimitReset(err) : now' = t
    /\ UNCHANGED <<worldVars, queueVars, runVars, entry, pc, crawlVars, listVars, cmpVars, ret, err,
                   reqs, nquota, nfail>>

\* getRepo: waitForRateLimitReset(err) has slept; Repositories.Get is called
\* again.
RetryGetRepo ==
    /\ pc = "retryRepo"
    /\ IsRateLimitError(err)
    /\ \E t \in waitForRateLimitReset(err) :
          /\ now' = t
          /\ \E o \in Outcomes(t) : GetAnswer(o, t, reqs)
    /\ UNCHANGED <<worldVars, queueVars, runVars, entry, crawlVars, listVars, cmpVars>>

\* getRepo(ownerName, repoName) before its first call.
InitGetRepo ==
    /\ edges = {}
    /\ forkList = ForkLists({}, FALSE)
    /\ pageLen = 1
    /\ branchList = [i \in RepoIds |-> <<>>]
    /\ defaultBranch = Master
    /\ repoBranches = <<>>
    /\ fork = RootId
    /\ forkBranches = <<>>
    /\ bi = 1
    /\ divergent = FALSE
    /\ comp = NoComp
    /\ base = <<>>
    /\ head = <<>>
    /\ out = <<>>
    /\ ret = NoRet
    /\ watch = FALSE
    /\ fi = 1
    /\ subs = <<>>
    /\ popped = <<>>
    /\ reported = "none"
    /\ entry = "getRepo"
    /\ pc = "getRepo"
    /\ q = newRepoQueue
    /\ done = {}
    /\ allForks = <<>>
    /\ elem \in RepoElems
    /\ forks = <<>>
    /\ opt = 0
    /\ page = 0
    /\ acc = <<>>
    /\ err = NoErr
    /\ now = 1
    /\ reqs = <<>>
    /\ calls = [e \in RepoElems |-> 0]
    /\ pushLog = <<>>
    /\ nquota = 0
    /\ nfail = 0

NextGetRepo ==
    \/ GetRepoCall
    \/ RetryGetRepo

SpecGetRepo == InitGetRepo /\ [][NextGetRepo]_vars

----------------------------------------------------------------------------
(* findInterestingForks. *)

\* The id of the repository r of a fork list.
RepoIdOf(r) == IdOf(repoElem(r.Owner, r.Name))

\* findInterestingForks: getRepo has returned repo; getBranches(ownerName,
\* repoName) is entered.
GetRootBranches ==
    /\ pc = "rootBranches"
    /\ opt' = 0
    /\ page' = 1
    /\ acc' = <<>>
    /\ reqs' = <<>>
    /\ pc' = "listRootBranches"
    /\ UNCHANGED <<worldVars, queueVars, runVars, entry, crawlVars, cmpVars, ret, err, now, nquota,
                   nfail>>

\* getBranches returns bs (sorted, nil error) to findInterestingForks, which
\* enters getAllForks: the queue holds the original repository.
ReturnRootBranches(bs) ==
    /\ repoBranches' = bs
    /\ q' = push(newRepoQueue, elem)
    /\ done' = {}
    /\ allForks' = <<>>
    /\ pushLog' = <<elem>>
    /\ pc' = "loop"
    /\ opt' = 0
    /\ page' = 0
    /\ acc' = <<>>
    /\ UNCHANGED <<elem, forks, calls, fork, forkBranches, bi, divergent, comp, base,
                   head, out>>

\* What getBranches does with the answer o of ListBranches for the original
\* repository, asked for the page opt.Page at the instant t.
ListRootBranchesAnswer(o, t) ==
    \E p \in {ReqPage(opt)} :
    \E items \in {PageItems(branchList[IdOf(elem)], p)} :
    \E next \in {NextPage(branchList[IdOf(elem)], p)} :
       /\ err' = o
       /\ reqs' = Append(reqs, Req("ListBranches", [repo |-> elem, page |-> p], o, t))
       /\ nquota' = IF o.kind = "rate" THEN nquota + 1 ELSE nquota
       /\ nfail' = IF o.kind = "other" THEN nfail + 1 ELSE nfail
       /\ \/ /\ o.kind = "rate"
             /\ pc' = "retryRootBranches"
             /\ UNCHANGED <<crawlVars, cmpVars, listVars>>
          \/ /\ o.kind = "other"
             \* warning, break: the partial result is sorted and returned
             /\ \E bs \in {SortBranches(acc)} : ReturnRootBranches(bs)
          \/ /\ o.kind = "nil"
             /\ next = 0
             /\ \E got \in {acc \o items} : \E bs \in {SortBranches(got)} : ReturnRootBranches(bs)
          \/ /\ o.kind = "nil"
             /\ next # 0
             /\ acc' = acc \o items
             /\ opt' = next
             /\ page' = page + 1
             /\ pc' = "listRootBranches"
             /\ UNCHANGED <<crawlVars, cmpVars>>

\* getBranches of the original repository: the first ListBranches call for
\* the page.
ListRootBranches ==
    /\ pc = "listRootBranches"
    /\ \E o \in Outcomes(now) : ListRootBranchesAnswer(o, now)
    /\ UNCHANGED <<worldVars, queueVars, runVars, entry, ret, now>>

\* getBranches of the original repository: the call repeated after
\* waitForRateLimitReset(err).
RetryListRootBranches ==
    /\ pc = "retryRootBranches"
    /\ IsRateLimitError(err)
    /\ \E t \in waitForRateLimitReset(err) :
          /\ now' = t
          /\ \E o \in Outcomes(t) : ListRootBranchesAnswer(o, t)
    /\ UNCHANGED <<worldVars, queueVars, runVars, entry, ret>>

\* for _, fork := range forks: compare(repo, repoBranches, fork) is entered
\* for the next fork, up to the first ListBranches call of its getBranches.
NextFork ==
    /\ pc = "forkLoop"
    /\ fi <= Len(allForks)
    /\ fork' = RepoIdOf(allForks[fi])
    /\ forkBranches' = <<>>
    /\ bi' = 1
    /\ divergent' = FALSE
    /\ opt' = 0
    /\ page' = 1
    /\ acc' = <<>>
    /\ reqs' = <<>>
    /\ pc' = "listBranches"
    /\ UNCHANGED <<worldVars, queueVars, runVars, entry, crawlVars, repoBranches, comp, base, head,
                   out, ret, err, now, nquota, nfail>>

\* The loop over the forks is over: return nil.
RunReturn ==
    /\ pc = "forkLoop"
    /\ fi > Len(allForks)
    /\ pc' = "done"
    /\ UNCHANGED <<worldVars, queueVars, runVars, entry, crawlVars, listVars, cmpVars, ret, err, now,
                   reqs, nquota, nfail>>

\* if watch && divergent is false: the next fork.
NoSubscription ==
    /\ pc = "watch"
    /\ ~(watch /\ divergent)
    /\ fi' = fi + 1
    /\ pc' = "forkLoop"
    /\ UNCHANGED <<worldVars, queueVars, subs, entry, crawlVars, listVars, cmpVars, ret, err, now,
                   reqs, nquota, nfail>>

\* if watch && divergent: SetRepositorySubscription is called once; any error
\* is returned by findInterestingForks.
SetRepositorySubscription ==
    /\ pc = "watch"
    /\ watch /\ divergent
    /\ \E o \in Outcomes(now) :
          /\ err' = o
          /\ reqs' = <<Req("SetRepositorySubscription", fork, o, now)>>
          /\ nquota' = IF o.kind = "rate" THEN nquota + 1 ELSE nquota
          /\ nfail' = IF o.kind = "other" THEN nfail + 1 ELSE nfail
          /\ \/ /\ o.kind = "nil"
                /\ subs' = Append(subs, fork)
                /\ fi' = fi + 1
                /\ pc' = "forkLoop"
             \/ /\ o.kind # "nil"
                \* return errors.WithStack(err)
                /\ pc' = "abort"
                /\ UNCHANGED runVars
    /\ UNCHANGED <<worldVars, queueVars, entry, crawlVars, listVars, cmpVars, ret, now>>

\* The fork graphs of the runs: forks of the original repository, and a fork
\* listed as a fork of itself.
RunGraphs == {g \in Graphs : g \subseteq {<<RootId, 1>>, <<RootId, 3>>, <<1, 1>>}}

\* findInterestingForks(ownerName, repoName, token, watch) before getRepo.
InitRun ==
    /\ edges \in RunGraphs
    /\ forkList = ForkLists(edges, FALSE)
    /\ pageLen = 1
    /\ \E rb \in {<<Master>>, <<Master, Dev>>} :
          branchList = [i \in RepoIds |-> IF i = RootId THEN rb
                                          ELSE IF i = 3 THEN <<Master, Fix>> ELSE <<Master>>]
    /\ defaultBranch = Master
    /\ watch \in BOOLEAN
    /\ repoBranches = <<>>
    /\ fork = RootId
    /\ forkBranches = <<>>
    /\ bi = 1
    /\ divergent = FALSE
    /\ comp = NoComp
    /\ base = <<>>
    /\ head = <<>>
    /\ out = <<>>
    /\ ret = NoRet
    /\ fi = 1
    /\ subs = <<>>
    /\ popped = <<>>
    /\ reported = "none"
    /\ entry = "run"
    /\ pc = "getRepo"
    /\ q = newRepoQueue
    /\ done = {}
    /\ allForks = <<>>
    /\ elem = ElemOf(RootId)
    /\ forks = <<>>
    /\ opt = 0
    /\ page = 0
    /\ acc = <<>>
    /\ err = NoErr
    /\ now = 1
    /\ reqs = <<>>
    /\ calls = [e \in RepoElems |-> 0]
    /\ pushLog = <<>>
    /\ nquota = 0
    /\ nfail = 0

NextRun ==
    \/ GetRepoCall
    \/ RetryGetRepo
    \/ GetRootBranches
    \/ ListRootBranches
    \/ RetryListRootBranches
    \/ GetAllForksReturn
    \/ GetAllForksSkip
    \/ GetAllForksExpand
    \/ ListForks
    \/ RetryListForks
    \/ NextFork
    \/ ListBranches
    \/ RetryListBranches
    \/ CompareCommits
    \/ RetryCompareCommits
    \/ CompareReturn
    \/ NoSubscription
    \/ SetRepositorySubscription
    \/ RunReturn

SpecRun == InitRun /\ [][NextRun]_vars

----------------------------------------------------------------------------
(* Properties of the run. *)

\* The positions at which a call answered by a rate limit error is waited
\* for and repeated.
RetryPositions ==
    {"retryRepo", "retryRootBranches", "retryForks", "retryBranches", "retryCompare"}

\* C11: a rate limit error is never surfaced and never ends the run: whenever
\* the last API call (fetch-repository, list-branches, list-forks,
\* compare-commits, set-subscription) was answered by one, the program is
\* about to wait and repeat that call; it has not returned an error.
C11_QuotaErrorRetried ==
    err.kind = "rate" => pc \in RetryPositions /\ pc # "abort"

\* The last invocation logged for the operation in progress.
LastReq == reqs[Len(reqs)]

\* The last API call was answered by an error that is not a rate limit error.
OtherErrorAnswered == err.kind = "other" /\ reqs # <<>> /\ LastReq.kind = "other"

\* C12: an error that is not a rate limit error is not retried: the call it
\* answered is the last invocation of its operation, the clock has not moved
\* (no sleep), and the caller's policy has applied: getRepo has returned the
\* error, the listing functions and compare go on without it.
C12_OtherErrorNotRetried ==
    /\ \A i \in DOMAIN reqs : reqs[i].kind = "other" => i = Len(reqs)
    /\ OtherErrorAnswered =>
          /\ now = LastReq.at
          /\ pc \notin RetryPositions
          /\ LastReq.op = "Get" => pc = "abort" /\ ret = [repo |-> 0, err |-> "other"]
          /\ LastReq.op \in {"ListBranches", "ListForks", "CompareCommits"} => pc # "abort"

\* getRepo: a rate limit error, then, in the retry, another error: returned.
C12_Witness ==
    /\ pc = "abort"
    /\ Len(reqs) = 2
    /\ reqs[1].op = "Get"
    /\ reqs[1].kind = "rate"
    /\ reqs[2].kind = "other"
    /\ ret.err = "other"

\* A paginated listing has returned and the state still holds its result:
\* getForks to getAllForks, getBranches of the original repository to
\* findInterestingForks, getBranches of the fork to compare.
ListingReturned ==
    /\ reqs # <<>>
    /\ LastReq.op \in {"ListForks", "ListBranches"}
    /\ LastReq.kind # "rate"
    /\ pc = "loop" \/ (pc = "branchLoop" /\ bi = 1)

\* The list the API holds for the listing that has returned.
ListedByAPI ==
    IF LastReq.op = "ListForks"
    THEN ForkListing(IdOf(LastReq.arg.repo))
    ELSE branchList[IdOf(LastReq.arg.repo)]

\* Number of pages the listing fetched: every page up to the last request,
\* without that one when it failed.
FetchedPages ==
    IF LastReq.kind = "nil" THEN LastReq.arg.page ELSE LastReq.arg.page - 1

\* The items of the fetched pages, page after page, as they were received.
ReceivedInPageOrder ==
    [i \in 1..Min(FetchedPages * pageLen, Len(ListedByAPI)) |-> ListedByAPI[i]]

\* What the listing returned to its caller.
ListingResult ==
    IF LastReq.op = "ListForks" THEN forks
    ELSE IF pc = "loop" THEN repoBranches ELSE forkBranches

\* The name a listing is sorted by.
SortKey(x) == IF LastReq.op = "ListForks" THEN GetFullName(x) ELSE x

Copies(s, x) == Cardinality({i \in DOMAIN s : s[i] = x})

\* C14 as stated: the sequence a paginated listing returns is the items of
\* the fetched pages in page order, each page's items as received.
C14_PageOrderKept == ListingReturned => ListingResult = ReceivedInPageOrder

\* C14, amended: the sequence getForks and getBranches return holds exactly
\* the items of the fetched pages, each as often as it was received, in
\* ascending order of the name (the full name for forks), whatever the
\* order of their arrival.
C14_FetchedItemsSorted ==
    ListingReturned =>
        /\ Len(ListingResult) = Len(ReceivedInPageOrder)
        /\ \A i \in DOMAIN ReceivedInPageOrder :
              Copies(ListingResult, ReceivedInPageOrder[i])
                  = Copies(ReceivedInPageOrder, ReceivedInPageOrder[i])
        /\ \A i, j \in DOMAIN ListingResult :
              i < j => ~StrLess(SortKey(ListingResult[j]), SortKey(ListingResult[i]))

\* The two branches of the original repository arrived on two pages as
\* master, dev and were returned as dev, master.
C14_Witness ==
    /\ ListingReturned
    /\ pc = "loop"
    /\ LastReq.op = "ListBranches"
    /\ LastReq.kind = "nil"
    /\ LastReq.arg.page = 2
    /\ ReceivedInPageOrder = <<Master, Dev>>
    /\ repoBranches = <<Dev, Master>>

\* The step in which a ListForks call of getForks answers an error that is
\* not a rate limit error.
ListForksFails ==
    /\ pc \in {"listForks", "retryForks"}
    /\ err'.kind = "other"

\* The items of the pages before the page k of the fork listing of elem.
PagesBefore(k) ==
    [i \in 1..Min((k - 1) * pageLen, Len(ForkListing(IdOf(elem)))) |->
        ForkListing(IdOf(elem))[i]]

\* The elements pushed for the forks fs: those that have forks.
PushedFor(fs) ==
    [i \in 1..Len(SelectSeq(fs, HasForks)) |->
        repoElem(SelectSeq(fs, HasForks)[i].Owner, SelectSeq(fs, HasForks)[i].Name)]

\* C15: when page k of a fork listing fails with an error that is not a rate
\* limit error, getForks returns exactly the items of the pages 1..k-1 (none
\* of page k or later, none lost), that failed request is the last one of
\* the listing, and the crawl goes on: exactly the returned forks are added
\* to the result and those of them that have forks are queued; the result
\* only ever grows by the list a getForks call returned, and a repository
\* other than the root is expanded only if it is in the result.
C15_PartialPageTolerance ==
    /\ [][ListForksFails =>
             \E k \in {reqs'[Len(reqs')].arg.page} :
                /\ reqs' = Append(reqs, reqs'[Len(reqs')])
                /\ reqs'[Len(reqs')].op = "ListForks"
                /\ reqs'[Len(reqs')].arg.repo = elem
                /\ k = page
                /\ Len(forks') = Len(PagesBefore(k))
                /\ \A i \in DOMAIN PagesBefore(k) :
                      Copies(forks', PagesBefore(k)[i])
                          = Copies(PagesBefore(k), PagesBefore(k)[i])
                /\ allForks' = allForks \o forks'
                /\ q'.elems = q.elems \o PushedFor(forks')
                /\ q'.pos = q.pos
                /\ pc' = "loop"
                /\ elem' = elem]_vars
    /\ [][allForks' # allForks =>
             \/ pc \in {"listForks", "retryForks"} /\ allForks' = allForks \o forks'
             \/ pc = "loop" /\ allForks' = SortRepos(allForks)]_vars
    /\ [](\A e \in RepoElems :
             calls[e] > 0 /\ e # ElemOf(RootId) => Occurrences(allForks, e) > 0)

\* The second page of the two forks of the root failed: the crawl has ended
\* with the fork of the first page alone.
C15_Witness ==
    /\ entry = "getAllForks"
    /\ pc = "done"
    /\ pageLen = 1
    /\ Len(forkList[RootId]) = 2
    /\ reqs # <<>>
    /\ LastReq.op = "ListForks"
    /\ LastReq.kind = "other"
    /\ LastReq.arg = [repo |-> ElemOf(RootId), page |-> 2]
    /\ allForks = <<Repository(forkList[RootId][1])>>

\* The first ListBranches page of the original repository has just answered
\* an error that is not a rate limit error.
RootBranchListFailed ==
    /\ entry = "run"
    /\ reqs # <<>>
    /\ LastReq.op = "ListBranches"
    /\ LastReq.kind = "other"
    /\ LastReq.arg = [repo |-> ElemOf(RootId), page |-> 1]

\* C16 as stated: when the branch list of the original repository cannot be
\* obtained at all, the run aborts: no fork is crawled, no comparison is
\* requested and no record is produced.
C16_RootBranchFailureAborts ==
    RootBranchListFailed =>
        /\ pc = "abort"
        /\ q = newRepoQueue
        /\ \A e \in RepoElems : calls[e] = 0
        /\ out = <<>>

\* getRepo has returned an error to findInterestingForks.
GetRepoFailed == entry = "run" /\ ret.err = "other"

\* C17: when fetching the original repository fails with an error that is
\* not a rate limit error, findInterestingForks returns that error: the
\* failing Get is the last API call (no ListBranches, ListForks,
\* CompareCommits or SetRepositorySubscription was or is made), no record is
\* printed, and the run takes no further step.
C17_RootFailureAborts ==
    /\ [](GetRepoFailed =>
             /\ pc = "abort"
             /\ err.kind = "other"
             /\ reqs # <<>>
             /\ LastReq.kind = "other"
             /\ \A i \in DOMAIN reqs : reqs[i].op = "Get"
             /\ \A e \in RepoElems : calls[e] = 0
             /\ repoBranches = <<>>
             /\ allForks = <<>>
             /\ forkBranches = <<>>
             /\ comp = NoComp
             /\ out = <<>>
             /\ subs = <<>>)
    /\ [][~GetRepoFailed]_vars

\* The first Get of a run answered the error.
C17_Witness ==
    /\ GetRepoFailed
    /\ pc = "abort"
    /\ reqs = <<Req("Get", ElemOf(RootId), [kind |-> "other", reset |-> 0], 1)>>
    /\ out = <<>>

\* The step in which the CompareCommits call for the branch forkBranches[bi]
\* answers an error that is not a rate limit error.
CompareFails ==
    /\ entry = "run"
    /\ pc \in {"branchLoop", "retryCompare"}
    /\ reqs' # reqs
    /\ err'.kind = "other"

OneForkScenario ==
    /\ entry = "run"
    /\ edges = {<<RootId, 1>>}
    /\ defaultBranch = Master
    /\ branchList[RootId] = <<Master>>
    /\ branchList[1] = <<Master>>
    /\ nfail = 0
    /\ nquota = 0

\* The comparison of the example: ahead by 2, both commits by the fork owner.
AheadByTwoOfOwner ==
    comp = [ok |-> TRUE, AheadBy |-> 2, Commits |-> <<OwnerOf(1), OwnerOf(1)>>]

\* C20: in the run of the example, when the comparison is ahead by 2 with
\* both commits by the owner of the fork, the run ends without error having
\* printed exactly one record: the interesting one, with base a:master, head
\* b:master and ahead count 2; and the run never ends with an error.
C20_EndToEnd ==
    OneForkScenario =>
        /\ pc # "abort"
        /\ (pc = "done" /\ AheadByTwoOfOwner) =>
              /\ out = <<[stream |-> "stdout", kind |-> "interesting", fork |-> 1,
                          branch |-> Master,
                          base |-> OwnerOf(RootId) \o Colon \o Master,
                          head |-> OwnerOf(1) \o Colon \o Master,
                          aheadBy |-> 2]>>
              /\ ret.err = "nil"
              /\ divergent
              /\ allForks = <<Repository(1)>>
              /\ subs = IF watch THEN <<1>> ELSE <<>>

\* The run of the example has ended with the comparison of the example.
C20_Witness ==
    /\ OneForkScenario
    /\ pc = "done"
    /\ AheadByTwoOfOwner
    /\ Len(out) = 1
    /\ ~watch

----------------------------------------------------------------------------
(* The retry loop against an API that goes on answering rate limit errors. *)

\* The API goes on answering rate limit errors to the call that is retried:
\* the count of the errors answered starts anew (the log of the invocations
\* keeps the last one).
RateLimitAgain ==
    /\ pc = "retryRepo"
    /\ nquota = QuotaBudget
    /\ now <= MaxClock
    /\ nquota' = 0
    /\ reqs' = <<reqs[Len(reqs)]>>
    /\ UNCHANGED <<worldVars, queueVars, runVars, entry, pc, crawlVars, listVars, cmpVars, ret, err,
                   now, nfail>>

NextRetryForever ==
    \/ GetRepoCall
    \/ RetryGetRepo
    \/ RateLimitAgain

\* getRepo scheduled fairly, against an API free to answer rate limit errors
\* again and again.
SpecRetryForever ==
    /\ InitGetRepo
    /\ [][NextRetryForever]_vars
    /\ WF_vars(GetRepoCall)
    /\ WF_vars(RetryGetRepo)

\* C13 as stated: the retry loop eventually exits with a success or an error
\* that is not a rate limit error.
C13_RetryLoopExits == <>(pc = "done" /\ err.kind # "rate")

\* C13 amended: the retry loop exits provided the API answers rate limit
\* errors anew only finitely often.
C13_RetryLoopExitsIfErrorsEnd ==
    (<>[][~RateLimitAgain]_vars) => <>(pc = "done" /\ err.kind # "rate")

\* The loop has exited after the API answered rate limit errors anew.
C13_Witness ==
    /\ pc = "done"
    /\ err.kind = "nil"
    /\ nquota = 1
    /\ Len(reqs) = 3
    /\ reqs[1].kind = "rate"
    /\ reqs[2].kind = "rate"
    /\ ret.err = "nil"

----------------------------------------------------------------------------
(* The crawl and the listings against the run without rate limit errors. *)

\* getAllForks with every ListForks call answered at once: the loop run to
\* its end from the queue qq, the marks dn and the forks all gathered so far.
RECURSIVE QuotaFreeCrawl(_, _, _)
QuotaFreeCrawl(qq, dn, all) ==
    IF isempty(qq) THEN SortRepos(all)
    ELSE LET e == popElem(emptyQueue(qq))
             rest == popQueue(emptyQueue(qq))
             fs == SortRepos(ForkListing(IdOf(e)))
         IN IF e \in dn THEN QuotaFreeCrawl(rest, dn, all)
            ELSE QuotaFreeCrawl(PushForks(rest, fs), dn \cup {e}, all \o fs)

\* The step in which a call of a listing answers a rate limit error.
QuotaAnswer ==
    /\ pc \in {"listForks", "retryForks"}
    /\ err'.kind = "rate"

\* C21: rate limit errors do not show in the results. A ListForks call that
\* answers one changes neither the page asked for nor the items gathered, and
\* the call after it asks for the same page of the same repository; a page
\* that is then obtained adds its items once; and the list getAllForks
\* returns when no call failed otherwise is the list of the crawl in which
\* every call is answered at once, whatever rate limit errors occurred.
C21_QuotaRetriesTransparent ==
    /\ [][QuotaAnswer =>
             /\ pc' = "retryForks"
             /\ UNCHANGED <<opt, page, acc, q, done, allForks, elem, forks, pushLog>>]_vars
    /\ [][pc = "retryForks" =>
             /\ reqs'[Len(reqs')].op = "ListForks"
             /\ reqs'[Len(reqs')].arg = LastReq.arg
             /\ reqs' = Append(reqs, reqs'[Len(reqs')])
             /\ (err'.kind = "nil" /\ pc' = "listForks") =>
                   acc' = acc \o PageItems(ForkListing(IdOf(elem)), LastReq.arg.page)]_vars
    /\ [](pc = "listForks" =>
             acc = [i \in 1..Min((ReqPage(opt) - 1) * pageLen, Len(ForkListing(IdOf(elem)))) |->
                      ForkListing(IdOf(elem))[i]])
    /\ []((CrawlDone /\ nfail = 0) =>
             allForks = QuotaFreeCrawl(push(newRepoQueue, ElemOf(RootId)), {}, <<>>))

\* A crawl of two repositories has returned after a rate limit error and a
\* retry in a listing of two pages.
C21_Witness ==
    /\ CrawlDone
    /\ nfail = 0
    /\ nquota > 0
    /\ pageLen = 1
    /\ Len(allForks) = 2
    /\ reqs # <<>>
    /\ \E i \in DOMAIN reqs : reqs[i].kind = "rate"

\* C22: a fetched fork whose fork count is 0 is in the result but is never
\* pushed, so getForks is never called on it (the root apart, which is pushed
\* at the start); a fetched fork whose fork count is greater than 0 is pushed
\* every time it is fetched.
C22_LeafForksNotExpanded ==
    /\ \A i \in DOMAIN forks :
          pc \in {"loop", "done"} =>
             Occurrences(allForks, repoElem(forks[i].Owner, forks[i].Name)) > 0
    /\ \A e \in RepoElems :
          /\ Copies(pushLog, e)
                = (IF e = ElemOf(RootId) THEN 1 ELSE 0)
                  + (IF HasForks(Repository(IdOf(e))) THEN Occurrences(allForks, e) ELSE 0)
          /\ (~HasForks(Repository(IdOf(e))) /\ e # ElemOf(RootId)) => calls[e] = 0

\* The crawl has returned a fork without forks, never pushed nor expanded,
\* and a fork with forks, pushed and expanded.
C22_Witness ==
    /\ CrawlDone
    /\ \E i, j \in DOMAIN allForks :
          /\ allForks[i].ForksCount = 0
          /\ calls[repoElem(allForks[i].Owner, allForks[i].Name)] = 0
          /\ Copies(pushLog, repoElem(allForks[i].Owner, allForks[i].Name)) = 0
          /\ allForks[j].ForksCount > 0
          /\ repoElem(allForks[j].Owner, allForks[j].Name) # ElemOf(RootId)
          /\ calls[repoElem(allForks[j].Owner, allForks[j].Name)] = 1

----------------------------------------------------------------------------
(* The order of the crawl. *)

\* The fork graphs of the crawl of deeper graphs.
DeepGraphs == {g \in SUBSET (RepoIds \X RepoIds) : Cardinality(g) <= MaxDeepEdges}

\* getAllForks up to the loop, on a graph of DeepGraphs.
InitCrawlDeep ==
    /\ edges \in DeepGraphs
    /\ \E rev \in BOOLEAN : forkList = ForkLists(edges, rev)
    /\ pageLen \in 1..MaxPageLen
    /\ branchList = [i \in RepoIds |-> <<>>]
    /\ defaultBranch = Master
    /\ repoBranches = <<>>
    /\ fork = RootId
    /\ forkBranches = <<>>
    /\ bi = 1
    /\ divergent = FALSE
    /\ comp = NoComp
    /\ base = <<>>
    /\ head = <<>>
    /\ out = <<>>
    /\ ret = NoRet
    /\ watch = FALSE
    /\ fi = 1
    /\ subs = <<>>
    /\ popped = <<>>
    /\ reported = "none"
    /\ entry = "getAllForks"
    /\ pc = "loop"
    /\ q = push(newRepoQueue, ElemOf(RootId))
    /\ done = {}
    /\ allForks = <<>>
    /\ elem = ElemOf(RootId)
    /\ forks = <<>>
    /\ opt = 0
    /\ page = 0
    /\ acc = <<>>
    /\ err = NoErr
    /\ now = 1
    /\ reqs = <<>>
    /\ calls = [e \in RepoElems |-> 0]
    /\ pushLog = <<ElemOf(RootId)>>
    /\ nquota = 0
    /\ nfail = 0

SpecCrawlDeep == InitCrawlDeep /\ [][NextCrawl]_vars

\* The repositories at most k fork relations away from the root.
RECURSIVE WithinDepth(_)
WithinDepth(k) ==
    IF k = 0 THEN {RootId}
    ELSE WithinDepth(k - 1) \cup {c \in RepoIds : \E p \in WithinDepth(k - 1) : <<p, c>> \in edges}

\* Fork depth of the repository i (reachable from the root).
Depth(i) == CHOOSE k \in 0..Cardinality(RepoIds) :
                /\ i \in WithinDepth(k)
                /\ \A m \in 0..(k - 1) : i \notin WithinDepth(m)

\* Position of the first entry of s that is e.
FirstIndex(s, e) == CHOOSE i \in DOMAIN s : s[i] = e /\ \A j \in 1..(i - 1) : s[j] # e

\* The repositories getForks was called on.
Expanded == {e \in RepoElems : calls[e] > 0}

----------------------------------------------------------------------------
(* repoQueue taken alone: any caller that pops only after empty reported *)
(* false.                                                                *)

\* q.push(e)
QueuePush ==
    /\ entry = "queue"
    /\ pc # "panic"
    /\ Len(pushLog) < MaxPushes
    /\ \E e \in RepoElems :
          /\ q' = push(q, e)
          /\ pushLog' = Append(pushLog, e)
    /\ UNCHANGED <<worldVars, runVars, queueVars, entry, pc, done, allForks, elem, forks,
                   calls, listVars, cmpVars, ret, err, now, reqs, nquota, nfail>>

\* q.empty(): q.elems[q.pos:] panics when q.pos is beyond the length of
\* q.elems; otherwise the answer is reported and an empty queue is reset.
QueueEmpty ==
    /\ entry = "queue"
    /\ pc # "panic"
    /\ IF emptyPanics(q)
       THEN /\ pc' = "panic"
            /\ UNCHANGED <<q, reported>>
       ELSE /\ reported' = isempty(q)
            /\ q' = emptyQueue(q)
            /\ pc' = IF isempty(q) THEN "idle" ELSE "nonempty"
    /\ UNCHANGED <<worldVars, runVars, popped, entry, done, allForks, elem, forks, calls,
                   pushLog, listVars, cmpVars, ret, err, now, reqs, nquota, nfail>>

\* q.pop(), called after q.empty() reported false: q.elems[pos] panics when
\* pos is not an index of q.elems.
QueuePop ==
    /\ entry = "queue"
    /\ pc = "nonempty"
    /\ IF popPanics(q)
       THEN /\ pc' = "panic"
            /\ UNCHANGED <<q, elem, popped>>
       ELSE /\ elem' = popElem(q)
            /\ q' = popQueue(q)
            /\ popped' = Append(popped, elem')
            /\ pc' = "idle"
    /\ UNCHANGED <<worldVars, runVars, reported, entry, done, allForks, forks, calls,
                   pushLog, listVars, cmpVars, ret, err, now, reqs, nquota, nfail>>

\* A new queue.
InitQueue ==
    /\ edges = {}
    /\ forkList = ForkLists({}, FALSE)
    /\ pageLen = 1
    /\ branchList = [i \in RepoIds |-> <<>>]
    /\ defaultBranch = Master
    /\ repoBranches = <<>>
    /\ fork = RootId
    /\ forkBranches = <<>>
    /\ bi = 1
    /\ divergent = FALSE
    /\ comp = NoComp
    /\ base = <<>>
    /\ head = <<>>
    /\ out = <<>>
    /\ ret = NoRet
    /\ watch = FALSE
    /\ fi = 1
    /\ subs = <<>>
    /\ popped = <<>>
    /\ reported = "none"
    /\ entry = "queue"
    /\ pc = "idle"
    /\ q = newRepoQueue
    /\ done = {}
    /\ allForks = <<>>
    /\ elem = ElemOf(RootId)
    /\ forks = <<>>
    /\ opt = 0
    /\ page = 0
    /\ acc = <<>>
    /\ err = NoErr
    /\ now = 1
    /\ reqs = <<>>
    /\ calls = [e \in RepoElems |-> 0]
    /\ pushLog = <<>>
    /\ nquota = 0
    /\ nfail = 0

NextQueue ==
    \/ QueuePush
    \/ QueueEmpty
    \/ QueuePop

SpecQueue == InitQueue /\ [][NextQueue]_vars

\* C24 as stated: under every sequence of push, empty and pop (pop only
\* after empty reported false) the queue is a FIFO container: no call
\* panics, pop returns the elements in push order, and empty reports true
\* exactly when every element pushed has been popped, also for elements
\* pushed after empty once reported true.
C24_QueueIsFIFO ==
    /\ [](/\ pc # "panic"
          /\ Len(popped) <= Len(pushLog)
          /\ \A n \in DOMAIN popped : popped[n] = pushLog[n])
    /\ [][(pushLog' = pushLog /\ popped' = popped /\ pc' # "panic") =>
             reported' = (Len(popped) = Len(pushLog))]_vars

----------------------------------------------------------------------------
(* The queue indices in the crawl. *)

\* No call of the loop head reads the queue out of bounds: empty() slices
\* within q.elems, and pop() after it reported false reads an index of q.elems.
CrawlReadsInBounds ==
    pc = "loop" =>
        /\ ~emptyPanics(q)
        /\ ~isempty(q) => ~popPanics(emptyQueue(q))

\* C25 as stated: in every state of getAllForks 0 <= q.pos <= len(q.elems),
\* and pop is executed only when q.pos < len(q.elems).
C25_QueueIndexSafe ==
    entry = "getAllForks" =>
        /\ 0 <= q.pos
        /\ q.pos <= Len(q.elems)
        /\ CrawlReadsInBounds

\* The part of C25 that the crawl keeps: the indices are in bounds until the
\* empty() call that ends the loop, and no read is out of bounds.
QueueIndexSafeInLoop ==
    entry = "getAllForks" =>
        /\ 0 <= q.pos
        /\ pc # "done" => q.pos <= Len(q.elems)
        /\ CrawlReadsInBounds

----------------------------------------------------------------------------
(* The pages of a listing. *)

\* Number of requests among the first i of the listing in progress that
\* obtained their page.
Obtained(i) == Cardinality({j \in 1..i : reqs[j].kind = "nil"})

\* C26: in a fork listing without an error other than rate limit errors,
\* every request asks for the page after the pages obtained so far, never
\* beyond the last page N, so the pages 1..N are obtained in increasing
\* order, each once; the listing returns after page N was obtained, and it
\* returns all the items of the N pages.
C26_PagesFollowed ==
    (reqs # <<>> /\ LastReq.op = "ListForks" /\ LastReq.kind # "other") =>
        \E list \in {ForkListing(IdOf(LastReq.arg.repo))} :
           /\ \A i \in DOMAIN reqs :
                 /\ reqs[i].op = "ListForks"
                 /\ reqs[i].arg.repo = LastReq.arg.repo
                 /\ reqs[i].arg.page = Obtained(i - 1) + 1
                 /\ reqs[i].arg.page <= NumPages(list)
           /\ pc \in {"listForks", "retryForks"} => Obtained(Len(reqs)) < NumPages(list)
           /\ pc \notin {"listForks", "retryForks"} =>
                 /\ LastReq.kind = "nil"
                 /\ LastReq.arg.page = NumPages(list)
                 /\ Obtained(Len(reqs)) = NumPages(list)
                 /\ Len(forks) = Len(list)
                 /\ \A i \in DOMAIN list : Copies(forks, list[i]) = Copies(list, list[i])

\* A listing of three pages has returned its three forks after a rate limit
\* error and a retry.
C26_Witness ==
    /\ pc = "loop"
    /\ reqs # <<>>
    /\ LastReq.op = "ListForks"
    /\ LastReq.kind = "nil"
    /\ LastReq.arg.page = 3
    /\ Len(reqs) = 4
    /\ Len(forks) = 3

====
